---- MODULE Spec2Model ----
(***************************************************************************)
(* ShaderLand (src/ShaderLand/scene.ts, src/ShaderLand/ShaderLand.tsx).    *)
(*                                                                         *)
(* scene.ts holds two Scene classes: the stripe variant (lines 1-244) and  *)
(* the dither variant (lines 246-582).  The model covers both: the         *)
(* variable `variant` says which one was constructed.                      *)
(*                                                                         *)
(* Numbers are fixed point, each quantity in the unit its panel step and   *)
(* its initial value need:                                                 *)
(*   stripeWidth, stripeSpacing, view-space y   1/10000                    *)
(*   time, speed, ditherSize, ditherMix         1/100                      *)
(*   ditherContrast                             1/10                       *)
(*   ditherDepthScale, depth, window size       1                          *)
(* so that time * speed is in the unit of y.  The dither arithmetic is     *)
(* done on exact rationals <<numerator, denominator>>.                     *)
(***************************************************************************)
EXTENDS Integers, Sequences, FiniteSets, TLC

VARIABLES
    variant,       \* "stripe" | "dither": which Scene class was constructed
    phase,         \* "setup": in the constructor, before its animate() call; "running"
    params,        \* this.params (the fields bound to panel controllers)
    uniforms,      \* this.stripeMaterial.uniforms
    window,        \* <<window.innerWidth, window.innerHeight>>
    camera,        \* this.camera.aspect, a rational
    rendererSize,  \* the size last given to this.renderer.setSize
    mesh,          \* torus geometry and positions
    groupRot,      \* number of 0.001 decrements of torusGroup.rotation.x
    frames,        \* number of renderer.render calls
    pending,       \* animation-frame callbacks requested and not yet run
    disposed,      \* dispose() has run
    edits,         \* number of panel change events so far
    frag           \* one fragment of the last rendered frame, as shaded

vars == <<variant, phase, params, uniforms, window, camera, rendererSize,
          mesh, groupRot, frames, pending, disposed, edits, frag>>

-----------------------------------------------------------------------------
(* Bounds of the model *)

MaxFrames == 2
MaxEdits == 2
MaxPixel == 3
RootGrid == 10

-----------------------------------------------------------------------------
(* Program constants, in the fixed-point units above *)

InitStripeWidth == 350
InitStripeSpacing == 5000
InitAnimationSpeed == 35
InitTorusRadius == 20
InitTubeRadius == 30
InitDitherSize == 100
InitDitherMix == 100
InitDitherDepthScale == 40
InitDitherContrast == 8
TimeStep == 1

-----------------------------------------------------------------------------
(* Exact rational arithmetic *)

RECURSIVE GCD(_, _)
GCD(a, b) == IF b = 0 THEN a ELSE GCD(b, a % b)

Abs(a) == IF a < 0 THEN -a ELSE a

\* n/d in lowest terms, d > 0
Rat(n, d) ==
    LET s == IF d < 0 THEN -1 ELSE 1
        g == GCD(Abs(n), Abs(d))
    IN  <<(s * n) \div g, (s * d) \div g>>

RInt(i) == <<i, 1>>

\* the operands are in lowest terms; common factors are divided out before
\* multiplying, to keep the products small
RAdd(a, b) ==
    LET g == GCD(a[2], b[2])
    IN  Rat(a[1] * (b[2] \div g) + b[1] * (a[2] \div g), (a[2] \div g) * b[2])
RNeg(a) == <<-a[1], a[2]>>
RSub(a, b) == RAdd(a, RNeg(b))
RMul(a, b) ==
    LET g1 == GCD(Abs(a[1]), b[2])
        g2 == GCD(Abs(b[1]), a[2])
    IN  Rat((a[1] \div g1) * (b[1] \div g2), (a[2] \div g2) * (b[2] \div g1))
RDiv(a, b) == RMul(a, Rat(b[2], b[1]))
RLt(a, b) ==
    LET g == GCD(a[2], b[2])
    IN  a[1] * (b[2] \div g) < b[1] * (a[2] \div g)
RLe(a, b) == ~RLt(b, a)
RFloor(a) == a[1] \div a[2]

RECURSIVE IPow(_, _)
IPow(b, k) == IF k = 0 THEN 1 ELSE b * IPow(b, k - 1)

RMax(a, b) == IF RLt(a, b) THEN b ELSE a
RMin(a, b) == IF RLt(b, a) THEN b ELSE a

-----------------------------------------------------------------------------
(* GLSL built-ins *)

\* mod(x, y) = x - y * floor(x / y), on integers of one unit
GlslMod(x, y) == x - y * (x \div y)

StepExclusive(edge, x) == IF x <= edge THEN 0 ELSE 1

\* step(edge, x) = x < edge ? 0.0 : 1.0
Step(edge, x) == IF x < edge THEN 0 ELSE 1

RStep(edge, x) == IF RLt(x, edge) THEN RInt(0) ELSE RInt(1)

\* clamp(x, lo, hi) = min(max(x, lo), hi)
RClamp(x, lo, hi) == RMin(RMax(x, lo), hi)

\* mix(x, y, a) = x * (1 - a) + y * a
RMix(x, y, a) == RAdd(RMul(x, RSub(RInt(1), a)), RMul(y, a))

\* mod(x, y) on rationals
RMod(x, y) == RSub(x, RMul(y, RInt(RFloor(RDiv(x, y)))))

\* The fifth root of x in [0, 1], rounded down onto the grid of 1/RootGrid.
FifthRoot(x) ==
    LET bound == IPow(RootGrid, 5) * x[1]
        r == Cardinality({k \in 1..RootGrid : IPow(k, 5) * x[2] <= bound})
    IN  Rat(r, RootGrid)

\* pow(x, e5 / 5) for x in [0, 1] and e5 >= 5: exact for a whole exponent;
\* a fractional exponent takes the rounded fifth root of x to the power of
\* the remaining fifths.
Pow(x, e5) ==
    LET q == e5 \div 5
        s == e5 % 5
        whole == Rat(IPow(x[1], q), IPow(x[2], q))
        root == FifthRoot(x)
    IN  IF s = 0 THEN whole
        ELSE RMul(whole, Rat(IPow(root[1], s), IPow(root[2], s)))

-----------------------------------------------------------------------------
(* Fragment shader, stripe part: main(), lines 97-101 and 390-394 *)

animatedY(f, u) == f.vy + u.time * u.speed

totalWidth(u) == u.stripeWidth + u.stripeSpacing

stripePattern(f, u) == GlslMod(animatedY(f, u), totalWidth(u))

\* float line = step(0.0, stripePattern) - step(stripeWidth, stripePattern)
stripeLine(f, u) ==
    Step(0, stripePattern(f, u)) - Step(u.stripeWidth, stripePattern(f, u))

-----------------------------------------------------------------------------
(* Fragment shader, dither part: getDitherValue(), lines 366-388 *)

BayerTableTypo ==
    << 0,  8,  2, 10,
      12,  4, 14,  6,
       3, 11,  1,  9,
      15,  7, 13,  15 >>

\* the 16 thresholds, as numerators over 16, in the order of the source
BayerTable ==
    << 0,  8,  2, 10,
      12,  4, 14,  6,
       3, 11,  1,  9,
      15,  7, 13,  5 >>

normalizedDepthUnclamped(depth, u) ==
    RSub(RInt(1), Rat(depth, u.ditherDepthScale))

normalizedDepthNotInverted(depth, u) ==
    RClamp(Rat(depth, u.ditherDepthScale), RInt(0), RInt(1))

\* 1.0 - clamp(depth / ditherDepthScale, 0.0, 1.0)
normalizedDepth(depth, u) ==
    RSub(RInt(1), RClamp(Rat(depth, u.ditherDepthScale), RInt(0), RInt(1)))

\* pow(normalizedDepth, 1.0 + ditherContrast * 2.0); the contrast is in
\* tenths, so the exponent is (5 + ditherContrast) fifths
contrastDepth(depth, u) == Pow(normalizedDepth(depth, u), 5 + u.ditherContrast)

\* ditherSize * (1.0 - contrastDepth)
dynamicSize(cd, u) == RMul(Rat(u.ditherSize, 100), RSub(RInt(1), cd))

\* max(dynamicSize, 1.0): what coord is divided by
cellSize(depth, u) == RMax(dynamicSize(contrastDepth(depth, u), u), RInt(1))

\* one component of coord / max(dynamicSize, 1.0); gl_FragCoord of pixel p
\* is its centre p + 0.5
patternCoord(p, cell) == RDiv(Rat(2 * p + 1, 2), cell)

\* int(floor(mod(patternCoord, 4.0))), one component
bayerCoord(p, cell) == RFloor(RMod(patternCoord(p, cell), RInt(4)))

\* x + y * 4
bayerIndex(x, y) == x + y * 4

\* float[16](...)[i]: an index outside 0..15 reads an undefined value,
\* modelled as a value no in-range read gives
bayerAt(i) == IF i \in 0..15 THEN Rat(BayerTable[i + 1], 16) ELSE RInt(-1)

\* the locals of getDitherValue(coord, depth) and its result
ditherLocals(f, u) ==
    LET nd == normalizedDepth(f.depth, u)
        cd == Pow(nd, 5 + u.ditherContrast)
        cell == RMax(dynamicSize(cd, u), RInt(1))
        x == bayerCoord(f.px, cell)
        y == bayerCoord(f.py, cell)
        bayer == bayerAt(bayerIndex(x, y))
    IN  [normalizedDepth |-> nd, contrastDepth |-> cd, cell |-> cell,
         x |-> x, y |-> y, index |-> bayerIndex(x, y), bayer |-> bayer,
         \* mix(bayer, step(0.5, bayer), contrastDepth)
         value |-> RMix(bayer, RStep(Rat(1, 2), bayer), cd)]

getDitherValue(f, u) == ditherLocals(f, u).value

-----------------------------------------------------------------------------
(* Fragment shader main(): what one fragment is shaded to *)

NoFragment == [shaded |-> FALSE]

\* stripe variant, lines 97-108
mainStripe(f, u) ==
    LET line == stripeLine(f, u)
    IN  [shaded |-> TRUE, vy |-> f.vy,
         totalWidth |-> totalWidth(u),
         animatedY |-> animatedY(f, u),
         mask |-> line,
         line |-> RInt(line)]

ditherLineSwapped(line, dither, u) ==
    RMix(RInt(line), RStep(RInt(line), dither), Rat(u.ditherMix, 100))

\* float ditheredLine = step(dither, line); line = mix(line, ditheredLine, ditherMix)
ditherLine(line, dither, u) ==
    RMix(RInt(line), RStep(dither, RInt(line)), Rat(u.ditherMix, 100))

\* dither variant, lines 390-409
mainDither(f, u) ==
    LET line == stripeLine(f, u)
        d == ditherLocals(f, u)
    IN  [shaded |-> TRUE, vy |-> f.vy, px |-> f.px, py |-> f.py, depth |-> f.depth,
         totalWidth |-> totalWidth(u),
         animatedY |-> animatedY(f, u),
         mask |-> line,
         depthScale |-> u.ditherDepthScale,
         normalizedDepth |-> d.normalizedDepth,
         cell |-> d.cell,
         x |-> d.x, y |-> d.y, index |-> d.index,
         dither |-> d.value,
         line |-> ditherLine(line, d.value, u)]

fragmentShader(v, f, u) == IF v = "dither" THEN mainDither(f, u) ELSE mainStripe(f, u)

-----------------------------------------------------------------------------
(* The tweak panel: setupGUI(), lines 150-204 and 459-543 *)

\* .add(this.params, name, min, max, step): the range of each controller
Controller ==
    [stripeWidth      |-> [min |-> 100,  max |-> 5000],
     stripeSpacing    |-> [min |-> 1000, max |-> 20000],
     animationSpeed   |-> [min |-> 10,   max |-> 200],
     ditherSize       |-> [min |-> 1,    max |-> 200],
     ditherMix        |-> [min |-> 0,    max |-> 100],
     ditherDepthScale |-> [min |-> 10,   max |-> 100],
     ditherContrast   |-> [min |-> 0,    max |-> 20],
     torusRadius      |-> [min |-> 10,   max |-> 40],
     tubeRadius       |-> [min |-> 5,    max |-> 60]]

StripeParams == {"stripeWidth", "stripeSpacing", "animationSpeed"}
DitherParams == {"ditherSize", "ditherMix", "ditherDepthScale", "ditherContrast"}
GeometryParams == {"torusRadius", "tubeRadius"}

\* the controllers of the "Shader Parameters" folder
ShaderParams(v) == IF v = "dither" THEN StripeParams \cup DitherParams ELSE StripeParams

UniformOfPasted(name) ==
    IF name = "animationSpeed" THEN "speed"
    ELSE IF name = "stripeSpacing" THEN "stripeWidth"
    ELSE name

\* the uniform each onChange writes
UniformOf(name) == IF name = "animationSpeed" THEN "speed" ELSE name

ClampedAbove(name, raw) ==
    IF raw > Controller[name].max THEN Controller[name].max ELSE raw

\* A number controller keeps the value it is given inside [min, max].
Clamped(name, raw) ==
    IF raw < Controller[name].min THEN Controller[name].min
    ELSE IF raw > Controller[name].max THEN Controller[name].max
    ELSE raw

\* what the user may type or drag: below the range, zero, above the range
RawInputs(name) == {-Controller[name].max, 0, 2 * Controller[name].max}

-----------------------------------------------------------------------------
(* Construction: constructor, setupMaterial(), setupMesh() *)

WindowSizes == {<<800, 600>>, <<1600, 900>>}

InitWindow == <<800, 600>>

\* this.params = {...}, lines 47-55 and 296-308
InitParams(v) ==
    LET common == [stripeWidth |-> InitStripeWidth,
                   stripeSpacing |-> InitStripeSpacing,
                   animationSpeed |-> InitAnimationSpeed,
                   torusRadius |-> InitTorusRadius,
                   tubeRadius |-> InitTubeRadius,
                   radialSegments |-> 16,
                   tubularSegments |-> 16]
        dither == [ditherSize |-> InitDitherSize,
                   ditherMix |-> InitDitherMix,
                   ditherDepthScale |-> InitDitherDepthScale,
                   ditherContrast |-> InitDitherContrast]
    IN  IF v = "dither" THEN common @@ dither ELSE common

\* uniforms: {...} of setupMaterial(), lines 76-81 and 329-341
setupMaterial(v, p, w) ==
    LET common == [time |-> 0,
                   stripeWidth |-> p.stripeWidth,
                   stripeSpacing |-> p.stripeSpacing,
                   speed |-> p.animationSpeed]
        dither == [resolution |-> w,
                   ditherSize |-> p.ditherSize,
                   ditherMix |-> p.ditherMix,
                   ditherDepthScale |-> p.ditherDepthScale,
                   ditherContrast |-> p.ditherContrast]
    IN  IF v = "dither" THEN common @@ dither ELSE common

\* new TorusGeometry(...) and the two positions: setupMesh() and
\* updateGeometry().  position.x = -+torusRadius / 3 is kept in sixths.
torusMesh(p) ==
    [torusRadius |-> p.torusRadius, tubeRadius |-> p.tubeRadius,
     radialSegments |-> p.radialSegments, tubularSegments |-> p.tubularSegments,
     torus1x |-> -p.torusRadius, torus2x |-> p.torusRadius]

\* window.innerWidth / window.innerHeight
Aspect(w) == Rat(w[1], w[2])

Init ==
    /\ variant \in {"stripe", "dither"}
    /\ phase = "setup"
    /\ params = InitParams(variant)
    /\ window = InitWindow
    /\ uniforms = setupMaterial(variant, params, window)
    /\ camera = Aspect(window)
    /\ rendererSize = window
    /\ mesh = torusMesh(params)
    /\ groupRot = 0
    /\ frames = 0
    /\ pending = 0
    /\ disposed = FALSE
    /\ edits = 0
    /\ frag = NoFragment

-----------------------------------------------------------------------------
(* Fragments *)

\* vertex shader, line 349: vDepth = -modelViewPosition.z
vDepth(z) == -z

ViewYs == {-351, 0, 349, 350, 351}
ViewZs == {5, 0, -5, -10, -20, -40, -100}
Depths == {vDepth(z) : z \in ViewZs}
Pixels == 0..MaxPixel

Fragments(v) ==
    IF v = "dither"
    THEN [vy : ViewYs, px : Pixels, py : Pixels, depth : Depths]
    ELSE [vy : ViewYs]

\* the fragments the scene's frames are probed at
SceneFragments(v) ==
    IF v = "dither"
    THEN {f \in Fragments(v) : /\ f.vy \in {0, 351}
                               /\ <<f.px, f.py, f.depth>> \in {<<0, 0, 0>>, <<3, 2, 40>>}}
    ELSE {f \in Fragments(v) : f.vy \in {0, 351}}

-----------------------------------------------------------------------------
(* Handlers *)

animateNoTick(consumed) ==
    /\ pending' = pending - consumed + 1
    /\ groupRot' = groupRot + 1
    /\ frames' = frames + 1
    /\ frag' \in IF disposed THEN {NoFragment}
                 ELSE {fragmentShader(variant, f, uniforms) : f \in SceneFragments(variant)}
    /\ UNCHANGED <<variant, params, uniforms, window, camera, rendererSize, mesh,
                   disposed, edits>>

\* animate(), lines 224-231 and 563-570.  consumed: 1 when run as an
\* animation-frame callback, 0 when called by the constructor.  dispose()
\* empties torusGroup, so a frame rendered after it shades no fragment.
animate(consumed) ==
    /\ pending' = pending - consumed + 1
    /\ uniforms' = [uniforms EXCEPT !.time = @ + TimeStep]
    /\ groupRot' = groupRot + 1
    /\ frames' = frames + 1
    /\ frag' \in IF disposed THEN {NoFragment}
                 ELSE {fragmentShader(variant, f, uniforms') : f \in SceneFragments(variant)}
    /\ UNCHANGED <<variant, params, window, camera, rendererSize, mesh,
                   disposed, edits>>

\* the constructor's this.animate() and addEventListener, lines 68-71, 321-324
Construct ==
    /\ phase = "setup"
    /\ phase' = "running"
    /\ animate(0)

AnimationFrame ==
    /\ phase = "running"
    /\ pending > 0
    /\ frames < MaxFrames
    /\ UNCHANGED phase
    /\ animate(1)

\* a change on a controller of "Shader Parameters": the controller stores
\* the value in this.params, then onChange copies it to the uniform
EditShader(name, raw) ==
    /\ phase = "running"
    /\ ~disposed
    /\ edits < MaxEdits
    /\ name \in ShaderParams(variant)
    /\ params' = [params EXCEPT ![name] = Clamped(name, raw)]
    /\ uniforms' = [uniforms EXCEPT ![UniformOf(name)] = params'[name]]
    /\ edits' = edits + 1
    /\ UNCHANGED <<variant, phase, window, camera, rendererSize, mesh, groupRot,
                   frames, pending, disposed, frag>>

\* a change on a controller of "Torus Geometry": updateGeometry
EditGeometry(name, raw) ==
    /\ phase = "running"
    /\ ~disposed
    /\ edits < MaxEdits
    /\ name \in GeometryParams
    /\ params' = [params EXCEPT ![name] = Clamped(name, raw)]
    /\ mesh' = torusMesh(params')
    /\ edits' = edits + 1
    /\ UNCHANGED <<variant, phase, uniforms, window, camera, rendererSize, groupRot,
                   frames, pending, disposed, frag>>

resolutionListenerStale(w) == uniforms

\* the listener setupMaterial() adds (dither variant only, never removed)
resolutionListener(w) ==
    IF variant = "dither" THEN [uniforms EXCEPT !.resolution = w] ELSE uniforms

\* a "resize" event: the listeners in the order they were added;
\* handleResize is removed by dispose()
Resize(w) ==
    /\ phase = "running"
    /\ w # window
    /\ window' = w
    /\ uniforms' = resolutionListener(w)
    /\ IF disposed
       THEN UNCHANGED <<camera, rendererSize>>
       ELSE camera' = Aspect(w) /\ rendererSize' = w
    /\ UNCHANGED <<variant, phase, params, mesh, groupRot, frames, pending,
                   disposed, edits, frag>>

DisposeCancelsFrame ==
    /\ phase = "running"
    /\ ~disposed
    /\ disposed' = TRUE
    /\ pending' = 0
    /\ UNCHANGED <<variant, phase, params, uniforms, window, camera, rendererSize,
                   mesh, groupRot, frames, edits, frag>>

\* dispose(), lines 233-243 and 572-582: it cancels no animation frame.
\* ShaderLand's effect constructs the Scene once (guarded by mounted) and
\* its cleanup calls nothing.
Dispose ==
    /\ phase = "running"
    /\ ~disposed
    /\ disposed' = TRUE
    /\ UNCHANGED <<variant, phase, params, uniforms, window, camera, rendererSize,
                   mesh, groupRot, frames, pending, edits, frag>>

Next ==
    \/ Construct
    \/ AnimationFrame
    \/ \E name \in StripeParams \cup DitherParams : \E raw \in RawInputs(name) :
           EditShader(name, raw)
    \/ \E name \in GeometryParams : \E raw \in RawInputs(name) : EditGeometry(name, raw)
    \/ \E w \in WindowSizes : Resize(w)
    \/ Dispose

Spec == Init /\ [][Next]_vars

-----------------------------------------------------------------------------
(* The fragment shader as a function of its uniforms and the fragment *)

\* the values the panel allows a parameter: the initial one, both ends of
\* the range and its middle
Allowed(name) ==
    {InitParams("dither")[name]}
        \cup {Clamped(name, r) : r \in RawInputs(name) \cup {Controller[name].max \div 2}}

StripeSettings ==
    [stripeWidth : Allowed("stripeWidth"), stripeSpacing : Allowed("stripeSpacing"),
     speed : Allowed("animationSpeed"), time : {k * TimeStep : k \in 0..MaxFrames}]

DitherSettings ==
    [ditherSize : Allowed("ditherSize"), ditherMix : Allowed("ditherMix"),
     ditherDepthScale : Allowed("ditherDepthScale"),
     ditherContrast : Allowed("ditherContrast")]

\* the uniforms as constructed, with s written over them
Override(v, s) ==
    LET u == setupMaterial(v, InitParams(v), InitWindow)
    IN  [k \in DOMAIN u |-> IF k \in DOMAIN s THEN s[k] ELSE u[k]]

\* the stripe uniforms range over all their settings with the dither ones as
\* constructed, and the other way round
ShaderSettings(v) ==
    {Override(v, s) : s \in StripeSettings}
        \cup IF v = "dither" THEN {Override(v, s) : s \in DitherSettings} ELSE {}

\* this.params as the panel holds it when the uniforms are u
ParamsOf(v, u) ==
    [k \in DOMAIN InitParams(v) |->
        IF k \in ShaderParams(v) THEN u[UniformOf(k)] ELSE InitParams(v)[k]]

ShaderInit ==
    /\ variant \in {"stripe", "dither"}
    /\ phase = "running"
    /\ uniforms \in ShaderSettings(variant)
    /\ params = ParamsOf(variant, uniforms)
    /\ window = InitWindow
    /\ camera = Aspect(window)
    /\ rendererSize = window
    /\ mesh = torusMesh(params)
    /\ frames = uniforms.time \div TimeStep
    /\ groupRot = frames
    /\ pending = 1
    /\ disposed = FALSE
    /\ edits = 0
    /\ frag = NoFragment

\* The fragments a setting is shaded at: every view-space y where the
\* dither uniforms are as constructed, every pixel and depth where the
\* stripe uniforms are.
ShaderFragments(v, u) ==
    LET u0 == setupMaterial(v, InitParams(v), InitWindow)
        same(keys) == \A k \in keys : u[k] = u0[k]
    IN  IF v = "stripe" THEN Fragments(v)
        ELSE (IF same(DitherParams)
              THEN {f \in Fragments(v) : f.px = 0 /\ f.py = 0 /\ f.depth \in {0, 20}}
              ELSE {})
             \cup
             (IF same({"stripeWidth", "stripeSpacing", "speed", "time"})
              THEN {f \in Fragments(v) : f.vy \in {0, 351}}
              ELSE {})

\* one invocation of the fragment shader's main()
Shade ==
    /\ ~frag.shaded
    /\ \E f \in ShaderFragments(variant, uniforms) :
           frag' = fragmentShader(variant, f, uniforms)
    /\ UNCHANGED <<variant, phase, params, uniforms, window, camera, rendererSize,
                   mesh, groupRot, frames, pending, disposed, edits>>

ShaderNext == Shade

ShaderSpec == ShaderInit /\ [][ShaderNext]_vars

-----------------------------------------------------------------------------
(* Claims *)

IsDither == variant = "dither"

\* C1: in both fragment shaders the stripe mask is 0 or 1, is 1 exactly when
\* (y + time*speed) mod (stripeWidth + stripeSpacing) lies in [0, stripeWidth),
\* and is unchanged when y + time*speed is shifted by one period; with
\* stripeWidth = 0.035, stripeSpacing = 0.5, time = 0 it is 1 at y = 0 and 0
\* at y = 0.0351.
C1_StripeMask ==
    (frag.shaded /\ uniforms.stripeWidth > 0 /\ uniforms.stripeSpacing > 0) =>
        LET period == uniforms.stripeWidth + uniforms.stripeSpacing
            y == frag.vy + uniforms.time * uniforms.speed
        IN  /\ frag.mask \in {0, 1}
            /\ (frag.mask = 1) <=> (y % period < uniforms.stripeWidth)
            /\ stripeLine([vy |-> frag.vy + period], uniforms) = frag.mask
            /\ stripeLine([vy |-> frag.vy - period], uniforms) = frag.mask
            /\ (uniforms.stripeWidth = 350 /\ uniforms.stripeSpacing = 5000
                    /\ uniforms.time = 0) =>
                   /\ frag.vy = 0 => frag.mask = 1
                   /\ frag.vy = 351 => frag.mask = 0

C1_Witness ==
    /\ frag.shaded
    /\ uniforms.stripeWidth = 350 /\ uniforms.stripeSpacing = 5000 /\ uniforms.time = 0
    /\ frag.vy = 351
    /\ frag.mask = 0

\* C2: every frame is shaded with stripeWidth + stripeSpacing > 0 and
\* ditherDepthScale > 0 after any panel edits: a zero or negative input is
\* clamped to the controller's positive minimum before it reaches the
\* modulus or the divisor.
C2_PositivePeriodAndScale ==
    /\ uniforms.stripeWidth >= Controller.stripeWidth.min
    /\ uniforms.stripeSpacing >= Controller.stripeSpacing.min
    /\ Controller.stripeWidth.min > 0 /\ Controller.stripeSpacing.min > 0
    /\ uniforms.stripeWidth + uniforms.stripeSpacing > 0
    /\ frag.shaded => frag.totalWidth > 0
    /\ IsDither =>
        /\ uniforms.ditherDepthScale >= Controller.ditherDepthScale.min
        /\ Controller.ditherDepthScale.min > 0
        /\ frag.shaded => frag.depthScale > 0

C2_Witness ==
    /\ IsDither
    /\ frag.shaded
    /\ frag.depthScale = Controller.ditherDepthScale.min
    /\ frag.totalWidth = Controller.stripeWidth.min + InitStripeSpacing

\* C3: the 16 entries of the Bayer table are pairwise distinct and are
\* exactly the set {0/16, ..., 15/16}; a fragment's threshold is one of them.
C3_BayerTable ==
    /\ Len(BayerTable) = 16
    /\ \A i, j \in 1..16 : i # j => BayerTable[i] # BayerTable[j]
    /\ {Rat(BayerTable[i], 16) : i \in 1..16} = {Rat(k, 16) : k \in 0..15}
    /\ (IsDither /\ frag.shaded) =>
           bayerAt(frag.index) \in {Rat(k, 16) : k \in 0..15}

C3_Witness == IsDither /\ frag.shaded /\ frag.index = 15 /\ bayerAt(frag.index) = Rat(5, 16)

\* C4: for fixed ditherSize, ditherDepthScale and ditherContrast the cell
\* size max(dynamicSize, 1.0) that divides the pixel coordinate is
\* non-increasing as the view-space depth increases.
C4_CellSizeShrinksWithDepth ==
    IsDither =>
        \A d1, d2 \in Depths :
            d1 <= d2 => RLe(cellSize(d2, uniforms), cellSize(d1, uniforms))

C6_DepthFactorZeroAtNearest ==
    (IsDither /\ frag.shaded) =>
        /\ RLe(RInt(0), frag.normalizedDepth) /\ RLe(frag.normalizedDepth, RInt(1))
        /\ \A d \in Depths :
               d >= frag.depth => RLe(normalizedDepth(d, uniforms), frag.normalizedDepth)
        /\ frag.depth = 0 => frag.normalizedDepth = RInt(0)

\* C6 amended: the depth factor normalizedDepth is in [0, 1] for every depth,
\* is non-increasing as the depth increases, and is 1 at depth = 0.
C6_DepthFactorOneAtNearest ==
    (IsDither /\ frag.shaded) =>
        /\ RLe(RInt(0), frag.normalizedDepth) /\ RLe(frag.normalizedDepth, RInt(1))
        /\ \A d \in Depths :
               d >= frag.depth => RLe(normalizedDepth(d, uniforms), frag.normalizedDepth)
        /\ frag.depth = 0 => frag.normalizedDepth = RInt(1)

C6_Witness ==
    /\ IsDither /\ frag.shaded
    /\ frag.depth = 0
    /\ frag.normalizedDepth = RInt(1)
    /\ \E d \in Depths : RLt(normalizedDepth(d, uniforms), frag.normalizedDepth)
                         /\ RLt(RInt(0), normalizedDepth(d, uniforms))

\* C7: a resize event changes only the resolution uniform, the camera
\* aspect ratio and the renderer size, setting them to the new window
\* dimensions; the time uniform, every stripe and dither uniform and every
\* params field are unchanged, in any state reached by frames, edits and
\* earlier resizes.
C7_ResizeChangesOnlyResolution ==
    [][(window' # window /\ ~disposed) =>
          /\ camera' = Rat(window'[1], window'[2])
          /\ rendererSize' = window'
          /\ DOMAIN uniforms' = DOMAIN uniforms
          /\ IsDither => uniforms'.resolution = window'
          /\ \A k \in DOMAIN uniforms \ {"resolution"} : uniforms'[k] = uniforms[k]
          /\ params' = params
          /\ UNCHANGED <<variant, phase, mesh, groupRot, frames, pending, disposed,
                         edits, frag>>]_vars

C7_Witness ==
    /\ IsDither /\ ~disposed
    /\ frames = MaxFrames /\ edits > 0
    /\ params.ditherMix # InitDitherMix
    /\ window = <<1600, 900>>
    /\ uniforms.resolution = <<1600, 900>>
    /\ camera = <<16, 9>>
    /\ rendererSize = <<1600, 900>>

\* C8: the time uniform starts at 0, grows by the fixed step 0.01 exactly
\* once per rendered frame and is written by nothing else, so after n frames
\* it is n steps and it never decreases.
C8_TimeAccumulator ==
    /\ [](uniforms.time = frames * TimeStep)
    /\ [][\/ frames' = frames + 1 /\ uniforms'.time = uniforms.time + TimeStep
          \/ frames' = frames /\ uniforms'.time = uniforms.time]_vars

C8_Witness ==
    /\ frames = MaxFrames
    /\ uniforms.time = MaxFrames * TimeStep
    /\ edits > 0
    /\ mesh.torusRadius # InitTorusRadius
    /\ window # InitWindow

\* C9: at every frame each uniform bound to a panel parameter equals that
\* parameter; each panel edit copies the edited parameter into its own
\* uniform and changes no other uniform.
UniformsFollowParams ==
    /\ uniforms.stripeWidth = params.stripeWidth
    /\ uniforms.stripeSpacing = params.stripeSpacing
    /\ uniforms.speed = params.animationSpeed
    /\ IsDither =>
        /\ uniforms.ditherSize = params.ditherSize
        /\ uniforms.ditherMix = params.ditherMix
        /\ uniforms.ditherDepthScale = params.ditherDepthScale
        /\ uniforms.ditherContrast = params.ditherContrast

C9_UniformsFollowParams ==
    /\ []UniformsFollowParams
    /\ [][edits' # edits =>
            \E name \in DOMAIN params :
                /\ \A n \in DOMAIN params \ {name} : params'[n] = params[n]
                /\ \A k \in DOMAIN uniforms :
                       uniforms'[k] # uniforms[k] =>
                           /\ k = (IF name = "animationSpeed" THEN "speed" ELSE name)
                           /\ uniforms'[k] = params'[name]]_vars

C9_Witness ==
    /\ IsDither /\ frag.shaded
    /\ frames = MaxFrames /\ edits = MaxEdits
    /\ params.stripeSpacing # InitStripeSpacing
    /\ params.ditherMix # InitDitherMix
    /\ UniformsFollowParams
    /\ frag.totalWidth = params.stripeWidth + params.stripeSpacing

\* C10: in the dither variant a fragment whose undithered stripe mask is 1
\* keeps the final line value 1 for every dither value and ditherMix in
\* [0, 1]; a fragment whose mask is 0 gets ditherMix if its dither value is
\* exactly 0 and 0 otherwise.
C10_DitherKeepsStripe ==
    (IsDither /\ frag.shaded) =>
        /\ frag.mask = 1 => frag.line = RInt(1)
        /\ (frag.mask = 0 /\ frag.dither = RInt(0)) =>
               frag.line = Rat(uniforms.ditherMix, 100)
        /\ (frag.mask = 0 /\ frag.dither # RInt(0)) => frag.line = RInt(0)

C10_Witness ==
    /\ IsDither /\ frag.shaded
    /\ frag.mask = 0
    /\ frag.dither = RInt(0)
    /\ frag.index # 0
    /\ uniforms.ditherMix = 50
    /\ frag.line = Rat(1, 2)

\* C11: once the constructor has called animate, exactly one animation-frame
\* callback is pending at every instant: each run of animate schedules one
\* successor and nothing cancels it, so the number pending never exceeds one
\* and never drops to zero, also after dispose(), where every further frame
\* still renders and advances the time uniform by one step.
C11_OnePendingFrame ==
    /\ [](phase = "setup" => pending = 0 /\ frames = 0)
    /\ [](phase = "running" => pending = 1 /\ frames >= 1)
    /\ [][frames' # frames =>
            /\ frames' = frames + 1
            /\ pending' = 1
            /\ uniforms'.time = uniforms.time + TimeStep]_vars
    /\ [][disposed => (disposed' /\ pending' = 1)]_vars

C11_Witness ==
    /\ disposed
    /\ pending = 1
    /\ frames = MaxFrames
    /\ frames > 1
    /\ uniforms.time = MaxFrames * TimeStep
    /\ frag = NoFragment

====
